---- MODULE Spec2Model ----
(***************************************************************************)
(* Redis command splitter (source/common/redis/command_splitter_impl.cc).  *)
(* One SplitRequest per request id; the connection pool and the caller's   *)
(* SplitCallbacks are the environment.  Everything runs on one thread, so  *)
(* a handler is one step, except MGETRequest::create whose dispatch loop   *)
(* is taken one iteration at a time (no other handler runs meanwhile).     *)
(***************************************************************************)
EXTENDS Integers, Sequences, FiniteSets, TLC

\* Largest number of elements after the command name in a client command.
MaxArgs == 3

\* Largest number of cancel() calls the caller makes on one request.
MaxCancels == 2

\* Request ids; `active` says which of them a behaviour uses.
Reqs == {1, 2}

(***************************************************************************)
(* RespValue: tagged variant, default-constructed as Null.                 *)
(***************************************************************************)
RespTypes == {"SimpleString", "Error", "Integer", "BulkString", "Array", "Null"}

RespValue(t) == [type |-> t, str |-> "", int |-> 0, arr |-> <<>>]

Bulk(s) == [RespValue("BulkString") EXCEPT !.str = s]
Simple(s) == [RespValue("SimpleString") EXCEPT !.str = s]
IntegerValue(n) == [RespValue("Integer") EXCEPT !.int = n]
Arr(a) == [RespValue("Array") EXCEPT !.arr = a]
NullValue == RespValue("Null")

\* A moved-from / unset RespValuePtr.
NoValue == [type |-> "nullptr", str |-> "", int |-> 0, arr |-> <<>>]

makeError(error) == [RespValue("Error") EXCEPT !.str = error]

WrongNumberOfArguments(name) == "wrong number of arguments for '" \o name \o "' command"
UnsupportedCommand(name) == "unsupported command '" \o name \o "'"

(***************************************************************************)
(* Command catalog and the dispatcher's case-insensitive handler map.      *)
(***************************************************************************)
simpleCommands == {"get", "set"}
evalCommands == {"eval", "evalsha"}
mget == "mget"

ToLowerCase(s) ==
  CASE s = "GET" -> "get"
    [] s = "Get" -> "get"
    [] s = "SET" -> "set"
    [] s = "EVAL" -> "eval"
    [] s = "EVALSHA" -> "evalsha"
    [] s = "MGET" -> "mget"
    [] s = "WATCH" -> "watch"
    [] OTHER -> s

command_map_ ==
  [n \in {ToLowerCase(c) : c \in simpleCommands \cup evalCommands \cup {mget}} |->
     IF \E c \in simpleCommands : ToLowerCase(c) = n THEN "SimpleRequest"
     ELSE IF \E c \in evalCommands : ToLowerCase(c) = n THEN "EvalRequest"
     ELSE "MGETRequest"]

(***************************************************************************)
(* Inputs.                                                                 *)
(***************************************************************************)
Names == {"GET", "set", "EVAL", "MGET", "WATCH"}
Keys == {"a", "b"}

\* Argument lists of up to n keys: the first is chosen freely, the second
\* is "b" and the others are a third key.
ArgLists(n) ==
  {[k \in 1..len |-> Bulk(IF k = 1 THEN x ELSE IF k = 2 THEN "b" ELSE "c")] :
     x \in Keys, len \in 0..n}

SeqsUpTo(S, n) == UNION {[1..k -> S] : k \in 0..n}

\* Decoded client commands: non-arrays, and arrays of a first element and up
\* to MaxArgs further elements, any of which may fail to be a bulk string.
Requests ==
  {IntegerValue(5), NullValue, Bulk("GET"), Arr(<<>>)}
    \cup {Arr(<<Bulk(n)>> \o args) : n \in Names, args \in ArgLists(MaxArgs)}
    \cup {Arr(<<Bulk(n)>> \o args) :
            n \in {"GET", "MGET"}, args \in SeqsUpTo({Bulk("a"), IntegerValue(5)}, 2)}
    \cup {Arr(<<IntegerValue(5), Bulk("a")>>)}

\* Values an upstream server may answer a child request with.
UpstreamReplies ==
  {Bulk("v"), NullValue, IntegerValue(5), Simple("OK"),
   makeError("invalid request"), makeError(UnsupportedCommand("GET")),
   Arr(<<Bulk("v")>>), Arr(<<NullValue>>), Arr(<<IntegerValue(5)>>), Arr(<<>>)}

VARIABLES
  active,                  \* request ids in play
  incoming_request,        \* the command handed to makeRequest
  kind,                    \* dynamic type of the SplitRequest constructed
  handle_,                 \* SingleServerRequest::handle_ (0 = null)
  pending_requests_,       \* FragmentedRequest::pending_requests_
  num_pending_responses_,
  error_count_,
  pending_response_,
  create_i,                \* loop variable of MGETRequest::create
  in_create,               \* request whose MGETRequest::create is running, or 0
  in_callback,             \* request whose reply the caller's onResponse is handling, or 0
  pool_requests,           \* per request: the calls made to conn_pool.makeRequest
  responses,               \* per request: the calls made to callbacks.onResponse
  returned,                \* what makeRequest returned: "none" (not yet), "null", "ptr"
  destroyed,               \* the SplitRequest's destructor has run
  cancels,                 \* number of cancel() calls made by the caller
  stats_,                  \* unsupported_command_, invalid_request_
  total_,                  \* per-command total_ counters
  fault,                   \* failed assertions and invalid accesses
  crashed                  \* the process died on an invalid access

objVars == <<kind, handle_, pending_requests_, num_pending_responses_, error_count_,
             pending_response_, create_i>>
statVars == <<stats_, total_>>
vars == <<active, incoming_request, kind, handle_, pending_requests_,
          num_pending_responses_, error_count_, pending_response_, create_i, in_create,
          in_callback, pool_requests, responses, returned, destroyed, cancels, stats_,
          total_, fault, crashed>>

mgetVars == <<pending_requests_, num_pending_responses_, error_count_,
              pending_response_, create_i>>

Init ==
  /\ active = {1}
  /\ incoming_request = [r \in Reqs |-> NoValue]
  /\ kind = [r \in Reqs |-> "none"]
  /\ handle_ = [r \in Reqs |-> 0]
  /\ pending_requests_ = [r \in Reqs |-> <<>>]
  /\ num_pending_responses_ = [r \in Reqs |-> 0]
  /\ error_count_ = [r \in Reqs |-> 0]
  /\ pending_response_ = [r \in Reqs |-> NoValue]
  /\ create_i = [r \in Reqs |-> 0]
  /\ in_create = 0
  /\ in_callback = 0
  /\ pool_requests = [r \in Reqs |-> <<>>]
  /\ responses = [r \in Reqs |-> <<>>]
  /\ returned = [r \in Reqs |-> "none"]
  /\ destroyed = [r \in Reqs |-> FALSE]
  /\ cancels = [r \in Reqs |-> 0]
  /\ stats_ = [unsupported_command_ |-> 0, invalid_request_ |-> 0]
  /\ total_ = [n \in DOMAIN command_map_ |-> 0]
  /\ fault = {}
  /\ crashed = FALSE

(***************************************************************************)
(* Environment: the caller's SplitCallbacks and the connection pool.       *)
(***************************************************************************)

\* callbacks.onResponse(v): the caller sees the reply, whether makeRequest is
\* still on the stack, and how many of the request's handles are non-null.
\* A caller that already holds the request (makeRequest has returned) is now
\* inside its onResponse and may call cancel() on the request from there.
callbacks_onResponse(r, v, sync, live) ==
  /\ responses' = [responses EXCEPT ![r] = Append(@, [value |-> v, sync |-> sync, live |-> live])]
  /\ in_callback' = IF sync THEN in_callback ELSE r

\* conn_pool.makeRequest(key, request, cb): the pool accepts (a live handle,
\* numbered by the call) or has no host for the key (null handle, 0).
conn_pool_makeRequest(r, key, request, cb, accept) ==
  Append(pool_requests[r],
         [key |-> key, request |-> request, cb |-> cb,
          state |-> IF accept THEN "live" ELSE "rejected",
          reply |-> NoValue, cancels |-> 0])

NewHandle(r, accept) == IF accept THEN Len(pool_requests[r]) + 1 ELSE 0

\* handle->cancel()
Handle_cancel(pr, h) == [pr EXCEPT ![h].state = "cancelled", ![h].cancels = @ + 1]

LiveHandles(pr) == Cardinality({k \in 1..Len(pr) : pr[k].handle_ # 0})

(***************************************************************************)
(* Destructors.                                                            *)
(***************************************************************************)
SingleServerRequest_dtor(handle) ==
  IF handle # 0 THEN {"ASSERT(!handle_)"} ELSE {}

FragmentedRequest_dtor(pr) ==
  IF \E k \in 1..Len(pr) : pr[k].handle_ # 0 THEN {"ASSERT(!request.handle_)"} ELSE {}

(***************************************************************************)
(* SimpleRequest::create and EvalRequest::create.                          *)
(***************************************************************************)
\* Faulty variant: the rejected request is answered and handed back all the same.
SimpleRequest_create_KeepsRequest(r, request, accept) ==
  LET handle == NewHandle(r, accept) IN
  /\ kind' = [kind EXCEPT ![r] = "SimpleRequest"]
  /\ pool_requests' = [pool_requests EXCEPT ![r] =
        conn_pool_makeRequest(r, request.arr[2].str, request, 0, accept)]
  /\ handle_' = [handle_ EXCEPT ![r] = handle]
  /\ returned' = [returned EXCEPT ![r] = "ptr"]
  /\ IF handle = 0
       THEN /\ callbacks_onResponse(r, makeError("no upstream host"), TRUE, 0)
            /\ UNCHANGED <<destroyed, fault>>
       ELSE UNCHANGED <<responses, in_callback, destroyed, fault>>
  /\ UNCHANGED <<mgetVars, in_create>>

SimpleRequest_create(r, request, accept) ==
  LET handle == NewHandle(r, accept) IN
  /\ kind' = [kind EXCEPT ![r] = "SimpleRequest"]
  /\ pool_requests' = [pool_requests EXCEPT ![r] =
        conn_pool_makeRequest(r, request.arr[2].str, request, 0, accept)]
  /\ handle_' = [handle_ EXCEPT ![r] = handle]
  /\ IF handle = 0
       THEN /\ callbacks_onResponse(r, makeError("no upstream host"), TRUE, 0)
            /\ returned' = [returned EXCEPT ![r] = "null"]
            /\ destroyed' = [destroyed EXCEPT ![r] = TRUE]
            /\ fault' = fault \cup SingleServerRequest_dtor(handle)
       ELSE /\ returned' = [returned EXCEPT ![r] = "ptr"]
            /\ UNCHANGED <<responses, in_callback, destroyed, fault>>
  /\ UNCHANGED <<mgetVars, in_create>>

\* Faulty variant: no arity check, the command is routed like a simple one.
EvalRequest_create_NoArity(r, request, accept) ==
  SimpleRequest_create(r, request, accept)

\* Faulty variant: the script is routed by element 1, like a simple command.
EvalRequest_create_RouteByFirstArg(r, request, accept) ==
  IF Len(request.arr) < 4
    THEN \* onWrongNumberOfArguments: no request object is constructed
         /\ callbacks_onResponse(r, makeError(WrongNumberOfArguments(request.arr[1].str)),
                                 TRUE, 0)
         /\ returned' = [returned EXCEPT ![r] = "null"]
         /\ UNCHANGED <<kind, handle_, mgetVars, in_create, pool_requests, destroyed, fault>>
    ELSE LET handle == NewHandle(r, accept) IN
         /\ kind' = [kind EXCEPT ![r] = "EvalRequest"]
         /\ pool_requests' = [pool_requests EXCEPT ![r] =
               conn_pool_makeRequest(r, request.arr[2].str, request, 0, accept)]
         /\ handle_' = [handle_ EXCEPT ![r] = handle]
         /\ IF handle = 0
              THEN /\ callbacks_onResponse(r, makeError("no upstream host"), TRUE, 0)
                   /\ returned' = [returned EXCEPT ![r] = "null"]
                   /\ destroyed' = [destroyed EXCEPT ![r] = TRUE]
                   /\ fault' = fault \cup SingleServerRequest_dtor(handle)
              ELSE /\ returned' = [returned EXCEPT ![r] = "ptr"]
                   /\ UNCHANGED <<responses, in_callback, destroyed, fault>>
         /\ UNCHANGED <<mgetVars, in_create>>

EvalRequest_create(r, request, accept) ==
  IF Len(request.arr) < 4
    THEN \* onWrongNumberOfArguments: no request object is constructed
         /\ callbacks_onResponse(r, makeError(WrongNumberOfArguments(request.arr[1].str)),
                                 TRUE, 0)
         /\ returned' = [returned EXCEPT ![r] = "null"]
         /\ UNCHANGED <<kind, handle_, mgetVars, in_create, pool_requests, destroyed, fault>>
    ELSE LET handle == NewHandle(r, accept) IN
         /\ kind' = [kind EXCEPT ![r] = "EvalRequest"]
         /\ pool_requests' = [pool_requests EXCEPT ![r] =
               conn_pool_makeRequest(r, request.arr[4].str, request, 0, accept)]
         /\ handle_' = [handle_ EXCEPT ![r] = handle]
         /\ IF handle = 0
              THEN /\ callbacks_onResponse(r, makeError("no upstream host"), TRUE, 0)
                   /\ returned' = [returned EXCEPT ![r] = "null"]
                   /\ destroyed' = [destroyed EXCEPT ![r] = TRUE]
                   /\ fault' = fault \cup SingleServerRequest_dtor(handle)
              ELSE /\ returned' = [returned EXCEPT ![r] = "ptr"]
                   /\ UNCHANGED <<responses, in_callback, destroyed, fault>>
         /\ UNCHANGED <<mgetVars, in_create>>

(***************************************************************************)
(* MGETRequest::create up to the dispatch loop: the request is built with  *)
(* num_pending_responses_ = N and an N-slot Array of Null values.          *)
(***************************************************************************)
\* Faulty variant: the command name is counted as a key.
MGETRequest_create_CountName(r, request) ==
  LET n == Len(request.arr) - 1 IN
  /\ kind' = [kind EXCEPT ![r] = "MGETRequest"]
  /\ num_pending_responses_' = [num_pending_responses_ EXCEPT ![r] = n + 1]
  /\ pending_requests_' = [pending_requests_ EXCEPT ![r] = <<>>]
  /\ pending_response_' = [pending_response_ EXCEPT ![r] = Arr([k \in 1..n |-> RespValue("Null")])]
  /\ create_i' = [create_i EXCEPT ![r] = 1]
  /\ in_create' = r
  /\ UNCHANGED <<handle_, error_count_, pool_requests, responses, in_callback, returned,
                 destroyed, fault>>

MGETRequest_create(r, request) ==
  LET n == Len(request.arr) - 1 IN
  /\ kind' = [kind EXCEPT ![r] = "MGETRequest"]
  /\ num_pending_responses_' = [num_pending_responses_ EXCEPT ![r] = n]
  /\ pending_requests_' = [pending_requests_ EXCEPT ![r] = <<>>]
  /\ pending_response_' = [pending_response_ EXCEPT ![r] = Arr([k \in 1..n |-> RespValue("Null")])]
  /\ create_i' = [create_i EXCEPT ![r] = 1]
  /\ in_create' = r
  /\ UNCHANGED <<handle_, error_count_, pool_requests, responses, in_callback, returned,
                 destroyed, fault>>

startRequest(r, handler, request, accept) ==
  CASE handler = "SimpleRequest" -> SimpleRequest_create(r, request, accept)
    [] handler = "EvalRequest" -> EvalRequest_create(r, request, accept)
    [] handler = "MGETRequest" -> MGETRequest_create(r, request)

(***************************************************************************)
(* InstanceImpl::makeRequest and InstanceImpl::onInvalidRequest.           *)
(***************************************************************************)
\* Faulty variant: the reply is sent but the counter is left alone.
onUnsupportedCommand_NoCount(r, request) ==
  /\ UNCHANGED stats_
  /\ callbacks_onResponse(r, makeError(UnsupportedCommand(request.arr[1].str)), TRUE, 0)

\* the branch of makeRequest taken when the handler map has no entry
onUnsupportedCommand(r, request) ==
  /\ stats_' = [stats_ EXCEPT !.unsupported_command_ = @ + 1]
  /\ callbacks_onResponse(r, makeError(UnsupportedCommand(request.arr[1].str)), TRUE, 0)

\* Faulty variant: the reply is sent but the counter is left alone.
onInvalidRequest_NoCount(r) ==
  /\ UNCHANGED stats_
  /\ callbacks_onResponse(r, makeError("invalid request"), TRUE, 0)

onInvalidRequest(r) ==
  /\ stats_' = [stats_ EXCEPT !.invalid_request_ = @ + 1]
  /\ callbacks_onResponse(r, makeError("invalid request"), TRUE, 0)

makeRequest(r) ==
  /\ ~crashed /\ in_create = 0 /\ in_callback = 0
  /\ r \in active /\ returned[r] = "none"
  /\ \E request \in Requests, accept \in BOOLEAN :
       /\ incoming_request' = [incoming_request EXCEPT ![r] = request]
       /\ IF request.type # "Array" \/ Len(request.arr) < 2
            THEN /\ onInvalidRequest(r)
                 /\ returned' = [returned EXCEPT ![r] = "null"]
                 /\ UNCHANGED <<objVars, in_create, pool_requests, destroyed, total_, fault>>
          ELSE IF \E k \in 1..Len(request.arr) : request.arr[k].type # "BulkString"
            THEN /\ onInvalidRequest(r)
                 /\ returned' = [returned EXCEPT ![r] = "null"]
                 /\ UNCHANGED <<objVars, in_create, pool_requests, destroyed, total_, fault>>
          ELSE LET to_lower_string == ToLowerCase(request.arr[1].str) IN
               IF to_lower_string \notin DOMAIN command_map_
                 THEN /\ onUnsupportedCommand(r, request)
                      /\ returned' = [returned EXCEPT ![r] = "null"]
                      /\ UNCHANGED <<objVars, in_create, pool_requests, destroyed, total_, fault>>
                 ELSE /\ total_' = [total_ EXCEPT ![to_lower_string] = @ + 1]
                      /\ startRequest(r, command_map_[to_lower_string], request, accept)
                      /\ UNCHANGED stats_
  /\ UNCHANGED <<active, cancels, crashed>>

(***************************************************************************)
(* MGETRequest::onChildResponse.                                           *)
(***************************************************************************)

\* What value->asArray()[i] yields: the element, or, when the child's Array
\* has no element i, whatever lies past the end of the vector.
PastTheEnd == {[RespValue(t) EXCEPT !.str = "?"] : t \in RespTypes}

ElementAt(value, i) == IF i < Len(value.arr) THEN {value.arr[i + 1]} ELSE PastTheEnd

OutOfBounds(value, response_indexes) ==
  value.type = "Array" /\ Len(response_indexes) > Len(value.arr)

\* Faulty variant: the bytes are moved but the slot keeps the Array type.
SpliceStep_KeepType(slot, element) ==
  IF element.type # "Null"
    THEN [slot EXCEPT !.str = element.str]
    ELSE slot

\* One iteration of the Array case: the slot takes the element's type, and
\* the element's bytes unless the element is Null.
SpliceStep(slot, element) ==
  IF element.type # "Null"
    THEN [RespValue(element.type) EXCEPT !.str = element.str]
    ELSE RespValue(element.type)

RECURSIVE ArraySplice(_, _, _, _)
ArraySplice(slot, value, i, n) ==
  IF i >= n THEN {slot}
  ELSE UNION {ArraySplice(SpliceStep(slot, e), value, i + 1, n) : e \in ElementAt(value, i)}

\* The values pending_response_[index] can hold after the switch.
SlotOutcomes(value, response_indexes) ==
  CASE value.type \in {"Integer", "SimpleString"} -> {makeError("upstream protocol error")}
    [] value.type \in {"Error", "BulkString"} ->
         {[RespValue(value.type) EXCEPT !.str = value.str]}
    [] value.type = "Array" ->
         ArraySplice(RespValue("Array"), value, 0, Len(response_indexes))
    [] value.type = "Null" -> {RespValue("Null")}

\* Faulty variant: a value that was found is not counted as an error.
ErrorCountDelta_ErrorsOnly(value) ==
  IF value.type \in {"Integer", "SimpleString", "Error"} THEN 1 ELSE 0

ErrorCountDelta(value) ==
  IF value.type \in {"Integer", "SimpleString", "Error", "BulkString"} THEN 1 ELSE 0

\* Faulty variant: every child writes slot 0.
FillSlot_First(response, index, slot) == [response EXCEPT !.arr[1] = slot]

\* pending_response_->asArray()[index] receives the value chosen by the switch.
FillSlot(response, index, slot) == [response EXCEPT !.arr[index + 1] = slot]

\* Faulty variant: the reply goes out when at most one child is outstanding.
Completed_OneLeft(left) == left <= 1

\* Faulty variant: the count is tested before it is decremented.
Completed_PostDecrement(left) == left + 1 = 0

\* --num_pending_responses_ == 0
Completed(left) == left = 0

\* pr is pending_requests_[r] as it stands when the callback runs.
onChildResponse(r, pr, value, index, response_indexes) ==
  LET pr1 == [pr EXCEPT ![index + 1].handle_ = 0]
      left == num_pending_responses_[r] - 1
  IN
  \E slot \in SlotOutcomes(value, response_indexes) :
    LET filled == FillSlot(pending_response_[r], index, slot) IN
    /\ pending_requests_' = [pending_requests_ EXCEPT ![r] = pr1]
    /\ error_count_' = [error_count_ EXCEPT ![r] = @ + ErrorCountDelta(value)]
    /\ fault' = fault
         \cup (IF OutOfBounds(value, response_indexes) THEN {"asArray()[i] out of bounds"} ELSE {})
         \cup (IF num_pending_responses_[r] > 0 THEN {} ELSE {"ASSERT(num_pending_responses_ > 0)"})
    /\ num_pending_responses_' = [num_pending_responses_ EXCEPT ![r] = left]
    /\ IF Completed(left)
         THEN /\ callbacks_onResponse(r, filled, in_create = r, LiveHandles(pr1))
              /\ pending_response_' = [pending_response_ EXCEPT ![r] = NoValue]
         ELSE /\ pending_response_' = [pending_response_ EXCEPT ![r] = filled]
              /\ UNCHANGED <<responses, in_callback>>
    /\ UNCHANGED crashed

\* The read past the end of the child's Array faults instead of yielding a value.
onChildResponseCrash(r, pr, value, index, response_indexes) ==
  /\ OutOfBounds(value, response_indexes)
  /\ pending_requests_' = [pending_requests_ EXCEPT ![r] = [pr EXCEPT ![index + 1].handle_ = 0]]
  /\ fault' = fault \cup {"asArray()[i] out of bounds"}
  /\ crashed' = TRUE
  /\ UNCHANGED <<error_count_, num_pending_responses_, pending_response_, responses, in_callback>>

\* Faulty variant: a failed child is reported like a rejected one.
onChildFailure_AsRejected(r, pr, index, response_indexes) ==
  onChildResponse(r, pr, makeError("no upstream host"), index, response_indexes)

\* FragmentedRequest::onChildFailure
onChildFailure(r, pr, index, response_indexes) ==
  onChildResponse(r, pr, makeError("upstream failure"), index, response_indexes)

\* PendingRequest::onResponse / onFailure forward to the parent.
PendingRequest_onResponse(r, pr, pending_request, value) ==
  onChildResponse(r, pr, value, pending_request.index_, pending_request.response_indexes)

PendingRequest_onFailure(r, pr, pending_request) ==
  onChildFailure(r, pr, pending_request.index_, pending_request.response_indexes)

(***************************************************************************)
(* MGETRequest::create: one iteration of the dispatch loop, and the return. *)
(***************************************************************************)
MGETCreateLoop(r) ==
  /\ ~crashed /\ in_create = r /\ in_callback = 0
  /\ create_i[r] < Len(incoming_request[r].arr)
  /\ \E accept \in BOOLEAN :
       LET i == create_i[r]
           hash_key == incoming_request[r].arr[i + 1].str
           single_mget == Arr(<<Bulk("MGET"), Bulk(hash_key)>>)
           pending_request == [index_ |-> i - 1, response_indexes |-> <<i - 1>>,
                               handle_ |-> NewHandle(r, accept)]
           pr == Append(pending_requests_[r], pending_request)
       IN
       /\ pool_requests' = [pool_requests EXCEPT ![r] =
             conn_pool_makeRequest(r, hash_key, single_mget, i - 1, accept)]
       /\ IF pending_request.handle_ = 0
            THEN PendingRequest_onResponse(r, pr, pending_request, makeError("no upstream host"))
            ELSE /\ pending_requests_' = [pending_requests_ EXCEPT ![r] = pr]
                 /\ UNCHANGED <<num_pending_responses_, error_count_, pending_response_,
                                responses, in_callback, fault, crashed>>
       /\ create_i' = [create_i EXCEPT ![r] = i + 1]
  /\ UNCHANGED <<active, incoming_request, kind, handle_, in_create, returned, destroyed,
                 cancels, statVars>>

\* Faulty variant: create always hands the request back.
MGETCreateReturn_Always(r) ==
  /\ ~crashed /\ in_create = r /\ in_callback = 0
  /\ create_i[r] >= Len(incoming_request[r].arr)
  /\ in_create' = 0
  /\ returned' = [returned EXCEPT ![r] = "ptr"]
  /\ UNCHANGED <<destroyed, fault>>
  /\ UNCHANGED <<active, incoming_request, objVars, pool_requests, responses, in_callback, cancels,
                 statVars, crashed>>

\* Faulty variant: create gives the request up as soon as one child was rejected.
MGETCreateReturn_AnyError(r) ==
  /\ ~crashed /\ in_create = r /\ in_callback = 0
  /\ create_i[r] >= Len(incoming_request[r].arr)
  /\ in_create' = 0
  /\ IF error_count_[r] = 0
       THEN /\ returned' = [returned EXCEPT ![r] = "ptr"]
            /\ UNCHANGED <<destroyed, fault>>
       ELSE /\ returned' = [returned EXCEPT ![r] = "null"]
            /\ destroyed' = [destroyed EXCEPT ![r] = TRUE]
            /\ fault' = fault \cup FragmentedRequest_dtor(pending_requests_[r])
  /\ UNCHANGED <<active, incoming_request, objVars, pool_requests, responses, in_callback, cancels,
                 statVars, crashed>>

MGETCreateReturn(r) ==
  /\ ~crashed /\ in_create = r /\ in_callback = 0
  /\ create_i[r] >= Len(incoming_request[r].arr)
  /\ in_create' = 0
  /\ IF num_pending_responses_[r] > 0
       THEN /\ returned' = [returned EXCEPT ![r] = "ptr"]
            /\ UNCHANGED <<destroyed, fault>>
       ELSE /\ returned' = [returned EXCEPT ![r] = "null"]
            /\ destroyed' = [destroyed EXCEPT ![r] = TRUE]
            /\ fault' = fault \cup FragmentedRequest_dtor(pending_requests_[r])
  /\ UNCHANGED <<active, incoming_request, objVars, pool_requests, responses, in_callback, cancels,
                 statVars, crashed>>

(***************************************************************************)
(* SingleServerRequest::onResponse / onFailure / cancel.                   *)
(***************************************************************************)
\* Faulty variant: the reply is forwarded before handle_ is cleared.
SingleServerRequest_onResponse_ReplyFirst(r, response) ==
  /\ callbacks_onResponse(r, response, FALSE, IF handle_[r] # 0 THEN 1 ELSE 0)
  /\ handle_' = [handle_ EXCEPT ![r] = 0]

SingleServerRequest_onResponse(r, response) ==
  /\ handle_' = [handle_ EXCEPT ![r] = 0]
  /\ callbacks_onResponse(r, response, FALSE, IF handle_'[r] # 0 THEN 1 ELSE 0)

SingleServerRequest_onFailure(r) ==
  /\ handle_' = [handle_ EXCEPT ![r] = 0]
  /\ callbacks_onResponse(r, makeError("upstream failure"), FALSE,
                          IF handle_'[r] # 0 THEN 1 ELSE 0)

\* Faulty variant: the handle is cancelled but handle_ keeps pointing at it.
SingleServerRequest_cancel_KeepHandle(r) ==
  IF handle_[r] = 0
    THEN /\ fault' = fault \cup {"handle_->cancel() on null"}
         /\ crashed' = TRUE
         /\ UNCHANGED <<handle_, pool_requests>>
    ELSE /\ pool_requests' = [pool_requests EXCEPT ![r] = Handle_cancel(@, handle_[r])]
         /\ UNCHANGED <<handle_, fault, crashed>>

\* handle_->cancel() through a null handle_ is an invalid access.
SingleServerRequest_cancel(r) ==
  IF handle_[r] = 0
    THEN /\ fault' = fault \cup {"handle_->cancel() on null"}
         /\ crashed' = TRUE
         /\ UNCHANGED <<handle_, pool_requests>>
    ELSE /\ pool_requests' = [pool_requests EXCEPT ![r] = Handle_cancel(@, handle_[r])]
         /\ handle_' = [handle_ EXCEPT ![r] = 0]
         /\ UNCHANGED <<fault, crashed>>

(***************************************************************************)
(* FragmentedRequest::cancel.                                              *)
(***************************************************************************)
\* Faulty variant: the loop stops after the first live handle.
CancelAll_FirstOnly(pr, pool, k) ==
  LET live == {j \in k..Len(pr) : pr[j].handle_ # 0} IN
  IF live = {} THEN <<pr, pool>>
  ELSE LET j == CHOOSE j \in live : \A m \in live : j <= m IN
       <<[pr EXCEPT ![j].handle_ = 0], Handle_cancel(pool, pr[j].handle_)>>

RECURSIVE CancelAll(_, _, _)
\* the loop over pending_requests_, from position k: <<pending_requests_, pool>>
CancelAll(pr, pool, k) ==
  IF k > Len(pr) THEN <<pr, pool>>
  ELSE IF pr[k].handle_ # 0
    THEN CancelAll([pr EXCEPT ![k].handle_ = 0], Handle_cancel(pool, pr[k].handle_), k + 1)
    ELSE CancelAll(pr, pool, k + 1)

\* Faulty variant: the children of every request in flight are cancelled.
FragmentedRequest_cancel_Everyone(r) ==
  /\ pending_requests_' =
       [q \in Reqs |-> CancelAll(pending_requests_[q], pool_requests[q], 1)[1]]
  /\ pool_requests' =
       [q \in Reqs |-> CancelAll(pending_requests_[q], pool_requests[q], 1)[2]]

FragmentedRequest_cancel(r) ==
  LET after == CancelAll(pending_requests_[r], pool_requests[r], 1) IN
  /\ pending_requests_' = [pending_requests_ EXCEPT ![r] = after[1]]
  /\ pool_requests' = [pool_requests EXCEPT ![r] = after[2]]

(***************************************************************************)
(* The caller: cancel() on a request it was handed, from its own code or   *)
(* from inside the onResponse that delivers the request's reply, and the   *)
(* request's destruction once the reply has arrived or the request has     *)
(* been cancelled.                                                         *)
(***************************************************************************)
\* A caller inside onResponse calls cancel() as the last thing it does there.
cancel(r) ==
  /\ ~crashed /\ in_create = 0 /\ in_callback \in {0, r}
  /\ returned[r] = "ptr" /\ ~destroyed[r]
  /\ cancels[r] < MaxCancels
  /\ cancels' = [cancels EXCEPT ![r] = @ + 1]
  /\ in_callback' = 0
  /\ IF kind[r] = "MGETRequest"
       THEN /\ FragmentedRequest_cancel(r)
            /\ UNCHANGED <<handle_, fault, crashed>>
       ELSE /\ SingleServerRequest_cancel(r)
            /\ UNCHANGED pending_requests_
  /\ UNCHANGED <<active, incoming_request, kind, num_pending_responses_, error_count_,
                 pending_response_, create_i, in_create, responses, returned, destroyed,
                 statVars>>

Destroy(r) ==
  /\ ~crashed /\ in_create = 0 /\ in_callback = 0
  /\ returned[r] = "ptr" /\ ~destroyed[r]
  /\ Len(responses[r]) > 0 \/ cancels[r] > 0
  /\ destroyed' = [destroyed EXCEPT ![r] = TRUE]
  /\ fault' = fault \cup (IF kind[r] = "MGETRequest"
                            THEN FragmentedRequest_dtor(pending_requests_[r])
                            ELSE SingleServerRequest_dtor(handle_[r]))
  /\ UNCHANGED <<active, incoming_request, objVars, in_create, pool_requests, responses, in_callback,
                 returned, cancels, statVars, crashed>>

(***************************************************************************)
(* The pool settles a live handle: PoolCallbacks::onResponse / onFailure.  *)
(***************************************************************************)
PoolOnResponse(r) ==
  /\ ~crashed /\ in_create = 0 /\ in_callback = 0
  /\ \E h \in 1..Len(pool_requests[r]), value \in UpstreamReplies :
       /\ pool_requests[r][h].state = "live"
       /\ pool_requests' = [pool_requests EXCEPT ![r][h].state = "responded",
                                                 ![r][h].reply = value]
       /\ IF kind[r] = "MGETRequest"
            THEN LET pending_request == pending_requests_[r][pool_requests[r][h].cb + 1] IN
                 /\ \/ PendingRequest_onResponse(r, pending_requests_[r], pending_request, value)
                    \/ onChildResponseCrash(r, pending_requests_[r], value,
                                            pending_request.index_,
                                            pending_request.response_indexes)
                 /\ UNCHANGED handle_
            ELSE /\ SingleServerRequest_onResponse(r, value)
                 /\ UNCHANGED <<mgetVars, fault, crashed>>
  /\ UNCHANGED <<active, incoming_request, kind, create_i, in_create, returned, destroyed,
                 cancels, statVars>>

PoolOnFailure(r) ==
  /\ ~crashed /\ in_create = 0 /\ in_callback = 0
  /\ \E h \in 1..Len(pool_requests[r]) :
       /\ pool_requests[r][h].state = "live"
       /\ pool_requests' = [pool_requests EXCEPT ![r][h].state = "failed"]
       /\ IF kind[r] = "MGETRequest"
            THEN /\ PendingRequest_onFailure(r, pending_requests_[r],
                                             pending_requests_[r][pool_requests[r][h].cb + 1])
                 /\ UNCHANGED handle_
            ELSE /\ SingleServerRequest_onFailure(r)
                 /\ UNCHANGED <<mgetVars, fault, crashed>>
  /\ UNCHANGED <<active, incoming_request, kind, create_i, in_create, returned, destroyed,
                 cancels, statVars>>

\* The caller's onResponse returns. Every handler calls it as its last
\* statement, so the handler returns with it.
CallbackReturn(r) ==
  /\ ~crashed /\ in_callback = r
  /\ in_callback' = 0
  /\ UNCHANGED <<active, incoming_request, objVars, in_create, pool_requests, responses,
                 returned, destroyed, cancels, statVars, fault, crashed>>

Next ==
  \E r \in Reqs :
    \/ makeRequest(r)
    \/ MGETCreateLoop(r)
    \/ MGETCreateReturn(r)
    \/ PoolOnResponse(r)
    \/ PoolOnFailure(r)
    \/ cancel(r)
    \/ CallbackReturn(r)
    \/ Destroy(r)

Spec == Init /\ [][Next]_vars

(***************************************************************************)
(* Two requests in flight on one dispatcher: both ids are in play, the     *)
(* handlers are the same, and the commands and upstream answers are drawn  *)
(* from a few representative values.                                       *)
(***************************************************************************)
TwoRequests ==
  {Arr(<<Bulk("MGET"), Bulk("a"), Bulk("b")>>), Arr(<<Bulk("GET"), Bulk("a")>>)}

TwoReplies == {Bulk("v"), NullValue}

TwoInit ==
  /\ active = Reqs
  /\ incoming_request = [r \in Reqs |-> NoValue]
  /\ kind = [r \in Reqs |-> "none"]
  /\ handle_ = [r \in Reqs |-> 0]
  /\ pending_requests_ = [r \in Reqs |-> <<>>]
  /\ num_pending_responses_ = [r \in Reqs |-> 0]
  /\ error_count_ = [r \in Reqs |-> 0]
  /\ pending_response_ = [r \in Reqs |-> NoValue]
  /\ create_i = [r \in Reqs |-> 0]
  /\ in_create = 0
  /\ in_callback = 0
  /\ pool_requests = [r \in Reqs |-> <<>>]
  /\ responses = [r \in Reqs |-> <<>>]
  /\ returned = [r \in Reqs |-> "none"]
  /\ destroyed = [r \in Reqs |-> FALSE]
  /\ cancels = [r \in Reqs |-> 0]
  /\ stats_ = [unsupported_command_ |-> 0, invalid_request_ |-> 0]
  /\ total_ = [n \in DOMAIN command_map_ |-> 0]
  /\ fault = {}
  /\ crashed = FALSE

TwoMakeRequest(r) == makeRequest(r) /\ incoming_request'[r] \in TwoRequests

TwoPoolOnResponse(r) ==
  /\ PoolOnResponse(r)
  /\ \A h \in 1..Len(pool_requests'[r]) :
       pool_requests'[r][h].state = "responded" => pool_requests'[r][h].reply \in TwoReplies

TwoNext ==
  \E r \in Reqs :
    \/ TwoMakeRequest(r)
    \/ MGETCreateLoop(r)
    \/ MGETCreateReturn(r)
    \/ TwoPoolOnResponse(r)
    \/ PoolOnFailure(r)
    \/ cancel(r)
    \/ CallbackReturn(r)
    \/ Destroy(r)

TwoSpec == TwoInit /\ [][TwoNext]_vars

\* The pool settles every live handle, a running create runs to its end and
\* the caller's onResponse returns.
FairSpec ==
  /\ Spec
  /\ \A r \in Reqs :
       /\ WF_vars(MGETCreateLoop(r))
       /\ WF_vars(MGETCreateReturn(r))
       /\ WF_vars(PoolOnResponse(r) \/ PoolOnFailure(r))
       /\ WF_vars(CallbackReturn(r))

(***************************************************************************)
(* Properties.                                                             *)
(***************************************************************************)
Delivered(r) == Len(responses[r]) > 0
Reply(r) == responses[r][1]
NumKeys(r) == Len(incoming_request[r].arr) - 1
Pool(r, h) == pool_requests[r][h]
Handles(r) == 1..Len(pool_requests[r])
SingleServer(r) == kind[r] \in {"SimpleRequest", "EvalRequest"}

NoUpstreamHost == makeError("no upstream host")
UpstreamFailure == makeError("upstream failure")

\* What the pool did with a child: the value the child's callback was given.
ChildOutcome(p) ==
  CASE p.state = "rejected" -> NoUpstreamHost
    [] p.state = "failed" -> UpstreamFailure
    [] p.state = "responded" -> p.reply
    [] OTHER -> NoValue

Settled(p) == p.state \in {"rejected", "failed", "responded"}

\* C1: whatever the command, the pool's accept/reject decisions and the order
\* of the child callbacks, the caller's onResponse is called at most once per
\* command.
C1_AtMostOneReply == \A r \in Reqs : Len(responses[r]) <= 1

C1_Witness ==
  \E r \in Reqs :
    /\ kind[r] = "MGETRequest" /\ Len(responses[r]) = 1 /\ ~Reply(r).sync
    /\ \E h \in Handles(r) : Pool(r, h).state = "failed"
    /\ \E h \in Handles(r) : Pool(r, h).state = "responded"

\* C2: once a command has been handed to makeRequest, if the caller never
\* cancels and the pool settles every live handle, the caller's onResponse is
\* eventually called.
C2_ReplyEventuallyDelivered ==
  \A r \in Reqs : (incoming_request[r] # NoValue) ~> (Delivered(r) \/ cancels[r] > 0)

\* C3: an MGET of N keys holds an Array of N slots from construction to
\* delivery; child i is the one issued for key i, slot i is Null until child i
\* settles and afterwards holds what onChildResponse makes of that child's
\* outcome, whatever the other children did and in whatever order.
C3_SlotsFollowKeys ==
  \A r \in Reqs :
    kind[r] = "MGETRequest" =>
      LET reply == IF Delivered(r) THEN Reply(r).value ELSE pending_response_[r] IN
      /\ reply.type = "Array"
      /\ Len(reply.arr) = NumKeys(r)
      /\ Delivered(r) => Len(pool_requests[r]) = NumKeys(r)
      /\ \A i \in 1..NumKeys(r) :
           IF i \in Handles(r) /\ Settled(Pool(r, i))
             THEN /\ Pool(r, i).key = incoming_request[r].arr[i + 1].str
                  /\ reply.arr[i] \in SlotOutcomes(ChildOutcome(Pool(r, i)), <<i - 1>>)
             ELSE reply.arr[i] = RespValue("Null")

C3_Witness ==
  \E r \in Reqs :
    /\ kind[r] = "MGETRequest" /\ Delivered(r) /\ NumKeys(r) = 3
    /\ Pool(r, 1).state = "rejected"
    /\ Pool(r, 2).state = "responded" /\ Pool(r, 2).reply = Bulk("v")
    /\ Pool(r, 3).state = "failed"

\* C4: once cancel() has returned, every handle of the request is null, no
\* pool handle is live, exactly the handles cancel() found live have had
\* cancel() invoked, once each, and no later step calls the caller's onResponse.
C4_CancelSilencesAndReleases ==
  /\ [](\A r \in Reqs :
          cancels[r] > 0 /\ ~crashed =>
            /\ handle_[r] = 0
            /\ \A k \in 1..Len(pending_requests_[r]) : pending_requests_[r][k].handle_ = 0
            /\ \A h \in Handles(r) :
                 /\ Pool(r, h).state # "live"
                 /\ Pool(r, h).cancels = IF Pool(r, h).state = "cancelled" THEN 1 ELSE 0)
  /\ [][\A r \in Reqs : cancels[r] > 0 => responses'[r] = responses[r]]_vars

C4_Witness ==
  \E r \in Reqs :
    /\ kind[r] = "MGETRequest" /\ cancels[r] = 1 /\ ~crashed /\ ~Delivered(r)
    /\ Pool(r, 1).state = "responded"
    /\ Cardinality({h \in Handles(r) : Pool(r, h).state = "cancelled"}) = 2

\* C5: no destructor assertion fails: wherever a SplitRequest is destroyed
\* (create returning null, after the reply, after cancel()), all its handle
\* fields are null.
C5_DestructorAssertionsHold ==
  /\ fault \cap {"ASSERT(!handle_)", "ASSERT(!request.handle_)"} = {}
  /\ \A r \in Reqs :
       destroyed[r] =>
         /\ handle_[r] = 0
         /\ \A k \in 1..Len(pending_requests_[r]) : pending_requests_[r][k].handle_ = 0

C5_Witness ==
  \E r \in Reqs :
    /\ destroyed[r] /\ SingleServer(r) /\ cancels[r] = 1 /\ ~crashed
    /\ Pool(r, 1).state = "cancelled"

IsUnsupportedReply(v) ==
  v.type = "Error" /\ v.str \in {UnsupportedCommand(n) : n \in Names}

\* C6 as stated: the unsupported_command counter is incremented for a command
\* exactly when the reply delivered for it is Error("unsupported command '...'").
C6_CounterIffUnsupportedReply ==
  stats_.unsupported_command_ =
    Cardinality({r \in Reqs : Delivered(r) /\ IsUnsupportedReply(Reply(r).value)})

\* C6 amended: the unsupported_command counter is incremented for a command
\* exactly when makeRequest itself replies, before it returns, with
\* Error("unsupported command '<name as given>'").
C6_CounterIffDispatcherRejects ==
  /\ stats_.unsupported_command_ =
       Cardinality({r \in Reqs :
                      Delivered(r) /\ Reply(r).sync /\ IsUnsupportedReply(Reply(r).value)})
  /\ \A r \in Reqs :
       Delivered(r) /\ Reply(r).sync /\ IsUnsupportedReply(Reply(r).value) =>
         /\ incoming_request[r].type = "Array"
         /\ Len(incoming_request[r].arr) >= 2
         /\ Reply(r).value = makeError(UnsupportedCommand(incoming_request[r].arr[1].str))
         /\ returned[r] = "null"

C6_Witness ==
  /\ stats_.unsupported_command_ = 1
  /\ \E r \in Reqs :
       Delivered(r) /\ Reply(r).value = makeError("unsupported command 'WATCH'")

\* C7 as stated: the invalid_request counter is incremented for a command
\* exactly when the reply delivered for it is Error("invalid request").
C7_CounterIffInvalidReply ==
  stats_.invalid_request_ =
    Cardinality({r \in Reqs : Delivered(r) /\ Reply(r).value = makeError("invalid request")})

\* C7 amended: the invalid_request counter is incremented for a command
\* exactly when makeRequest itself replies, before it returns, with
\* Error("invalid request").
C7_CounterIffDispatcherRejects ==
  /\ stats_.invalid_request_ =
       Cardinality({r \in Reqs :
                      /\ Delivered(r) /\ Reply(r).sync
                      /\ Reply(r).value = makeError("invalid request")})
  /\ \A r \in Reqs :
       Delivered(r) /\ Reply(r).sync /\ Reply(r).value = makeError("invalid request") =>
         /\ returned[r] = "null"
         /\ \/ incoming_request[r].type # "Array"
            \/ Len(incoming_request[r].arr) < 2
            \/ \E k \in 1..Len(incoming_request[r].arr) :
                 incoming_request[r].arr[k].type # "BulkString"

C7_Witness ==
  /\ stats_.invalid_request_ = 1
  /\ \E r \in Reqs :
       /\ incoming_request[r] = Arr(<<Bulk("GET"), IntegerValue(5)>>)
       /\ Delivered(r) /\ Reply(r).value = makeError("invalid request")

Malformed(request) ==
  \/ request.type # "Array"
  \/ Len(request.arr) < 2
  \/ \E k \in 1..Len(request.arr) : request.arr[k].type # "BulkString"

Unsupported(request) ==
  ~Malformed(request) /\ ToLowerCase(request.arr[1].str) \notin DOMAIN command_map_

EvalArity(request) ==
  /\ ~Malformed(request)
  /\ ToLowerCase(request.arr[1].str) \in evalCommands
  /\ Len(request.arr) < 4

CountersAre(invalid, unsupported, totals) ==
  /\ stats_.invalid_request_ = invalid
  /\ stats_.unsupported_command_ = unsupported
  /\ \A n \in DOMAIN total_ : total_[n] = IF n \in totals THEN 1 ELSE 0

\* C8: a malformed command, an unsupported command name and an EVAL/EVALSHA
\* of fewer than 4 elements each get one Error reply inside makeRequest, which
\* returns null, calls the pool not at all and increments one counter:
\* invalid_request, unsupported_command, or the command's total.
C8_ClientErrors ==
  \A r \in Reqs :
    LET request == incoming_request[r] IN
    returned[r] # "none" /\ (Malformed(request) \/ Unsupported(request) \/ EvalArity(request)) =>
      /\ Len(responses[r]) = 1
      /\ Reply(r).value.type = "Error"
      /\ Reply(r).sync
      /\ returned[r] = "null"
      /\ pool_requests[r] = <<>>
      /\ IF Malformed(request) THEN CountersAre(1, 0, {})
         ELSE IF Unsupported(request) THEN CountersAre(0, 1, {})
         ELSE /\ CountersAre(0, 0, {ToLowerCase(request.arr[1].str)})
              /\ Reply(r).value = makeError(WrongNumberOfArguments(request.arr[1].str))

C8_Witness ==
  \E r \in Reqs :
    /\ incoming_request[r] = Arr(<<Bulk("EVAL"), Bulk("a"), Bulk("b")>>)
    /\ returned[r] = "null"
    /\ total_["eval"] = 1
    /\ Reply(r).value = makeError("wrong number of arguments for 'EVAL' command")

\* C9: a SimpleRequest or an EvalRequest of valid arity makes one pool call and
\* its reply follows that child: rejected, Error("no upstream host") inside
\* makeRequest, which returns null; answered, the upstream value as it came;
\* failed, Error("upstream failure"); in the last two the handle is null when
\* the caller gets the reply. Until the child settles there is no reply.
C9_SingleServerReply ==
  \A r \in Reqs :
    SingleServer(r) =>
      /\ Len(pool_requests[r]) = 1
      /\ LET p == Pool(r, 1) IN
         CASE p.state = "rejected" ->
                /\ responses[r] = <<[value |-> NoUpstreamHost, sync |-> TRUE, live |-> 0]>>
                /\ returned[r] = "null"
           [] p.state = "responded" ->
                /\ responses[r] = <<[value |-> p.reply, sync |-> FALSE, live |-> 0]>>
                /\ returned[r] = "ptr"
           [] p.state = "failed" ->
                /\ responses[r] = <<[value |-> UpstreamFailure, sync |-> FALSE, live |-> 0]>>
                /\ returned[r] = "ptr"
           [] OTHER -> responses[r] = <<>> /\ returned[r] = "ptr"

C9_Witness ==
  \E r \in Reqs :
    /\ kind[r] = "EvalRequest" /\ Pool(r, 1).state = "responded"
    /\ Delivered(r) /\ Reply(r).value = Arr(<<IntegerValue(5)>>)

AllRejected(r) == \A h \in Handles(r) : Pool(r, h).state = "rejected"

\* C10 as stated: whatever the variant, if the pool rejects the first child,
\* makeRequest delivers a reply carrying the error (an Error, or an Array
\* whose first slot is one) before it returns, and returns null.
C10_FirstRejectedFailsRequest ==
  \A r \in Reqs :
    returned[r] # "none" /\ pool_requests[r] # <<>> /\ Pool(r, 1).state = "rejected" =>
      /\ returned[r] = "null"
      /\ Len(responses[r]) = 1 /\ Reply(r).sync
      /\ \/ Reply(r).value.type = "Error"
         \/ Reply(r).value.type = "Array" /\ Reply(r).value.arr[1].type = "Error"

\* C10 amended: if the pool rejects every child of the request (the only one
\* of a Simple or Eval request, all N of an MGET), makeRequest delivers the
\* reply before it returns and returns null: Error("no upstream host") for
\* Simple and Eval, an Array of N Error("no upstream host") slots for MGET. An
\* MGET whose first child is rejected and another accepted is returned to the
\* caller with no reply delivered yet.
C10_AllRejectedFailsRequest ==
  \A r \in Reqs :
    returned[r] # "none" /\ pool_requests[r] # <<>> =>
      /\ AllRejected(r) =>
           /\ returned[r] = "null"
           /\ Len(responses[r]) = 1 /\ Reply(r).sync
           /\ SingleServer(r) => Reply(r).value = NoUpstreamHost
           /\ kind[r] = "MGETRequest" =>
                Reply(r).value = Arr([k \in 1..NumKeys(r) |-> NoUpstreamHost])
      /\ kind[r] = "MGETRequest" /\ Pool(r, 1).state = "rejected" /\ ~AllRejected(r) =>
           /\ returned[r] = "ptr"
           /\ \A k \in 1..Len(responses[r]) : ~responses[r][k].sync

C10_Witness ==
  \E r \in Reqs :
    /\ kind[r] = "MGETRequest" /\ NumKeys(r) = 2 /\ returned[r] = "null"
    /\ Pool(r, 1).state = "rejected" /\ Pool(r, 2).state = "rejected"
    /\ Delivered(r)

\* C11: cancel() is idempotent for every kind of request: a second cancel()
\* on a Simple, Eval or MGET request faults nothing, invokes no pool handle's
\* cancel() a second time and leaves every handle null.
C11_SecondCancelIsNoOp ==
  \A r \in Reqs :
    cancels[r] >= 2 =>
      /\ ~crashed
      /\ "handle_->cancel() on null" \notin fault
      /\ handle_[r] = 0
      /\ \A k \in 1..Len(pending_requests_[r]) : pending_requests_[r][k].handle_ = 0
      /\ \A h \in Handles(r) : Pool(r, h).cancels <= 1

\* C12: for an MGET, whatever the order in which its children settle,
\* num_pending_responses_ never increases and never goes below zero, the
\* assertion num_pending_responses_ > 0 holds at every settlement, and the
\* aggregated reply is delivered in the very step that takes the count to
\* zero, which happens once.
C12_PendingCountsDownToReply ==
  /\ [](\A r \in Reqs :
          kind[r] = "MGETRequest" =>
            /\ num_pending_responses_[r] >= 0
            /\ "ASSERT(num_pending_responses_ > 0)" \notin fault
            /\ Delivered(r) <=> num_pending_responses_[r] = 0)
  /\ [][\A r \in Reqs :
          kind[r] = "MGETRequest" =>
            /\ num_pending_responses_'[r] <= num_pending_responses_[r]
            /\ (num_pending_responses_[r] > 0 /\ num_pending_responses_'[r] = 0)
                 <=> Len(responses'[r]) = Len(responses[r]) + 1
            /\ Len(responses'[r]) >= Len(responses[r])]_vars

C12_Witness ==
  \E r \in Reqs :
    /\ kind[r] = "MGETRequest" /\ NumKeys(r) = 3 /\ num_pending_responses_[r] = 0
    /\ Delivered(r) /\ ~Reply(r).sync /\ Reply(r).live = 0
    /\ Pool(r, 1).state = "responded" /\ Pool(r, 2).state = "rejected"
    /\ Pool(r, 3).state = "responded"

\* C13: MGETRequest::create hands the request back exactly when
\* num_pending_responses_ is above zero after the dispatch loop. It returns
\* null exactly when all N children were rejected, and then the caller has
\* already received, inside create, an Array of N Error("no upstream host")
\* slots; if at least one child was accepted, nothing is delivered inside
\* create.
C13_CreateReturnsIffPending ==
  \A r \in Reqs :
    kind[r] = "MGETRequest" =>
      /\ in_create = r /\ create_i[r] >= Len(incoming_request[r].arr) =>
           /\ num_pending_responses_[r] = 0 <=> AllRejected(r)
           /\ num_pending_responses_[r] = 0 <=> Delivered(r)
      /\ returned[r] # "none" =>
           /\ returned[r] = "null" <=> AllRejected(r)
           /\ returned[r] = "null" =>
                responses[r] = <<[value |-> Arr([k \in 1..NumKeys(r) |-> NoUpstreamHost]),
                                  sync |-> TRUE, live |-> 0]>>
           /\ returned[r] = "ptr" => \A k \in 1..Len(responses[r]) : ~responses[r][k].sync

C13_Witness ==
  \E r \in Reqs :
    /\ kind[r] = "MGETRequest" /\ NumKeys(r) = 3
    /\ returned[r] = "null" /\ AllRejected(r)
    /\ num_pending_responses_[r] = 0 /\ Reply(r).sync

\* The slot the MGET table of the specification gives for a child's reply.
C14_SlotFor(value) ==
  CASE value.type = "BulkString" -> Bulk(value.str)
    [] value.type = "Null" -> NullValue
    [] value.type = "Error" -> makeError(value.str)
    [] value.type \in {"Integer", "SimpleString"} -> makeError("upstream protocol error")
    [] value.type = "Array" ->
         LET element == value.arr[1] IN
         [RespValue(element.type) EXCEPT
            !.str = IF element.type # "Null" THEN element.str ELSE ""]

\* C14: the slot an MGET child writes depends on its reply alone: a
\* BulkString gives a BulkString slot with the reply's bytes, a Null leaves
\* the slot Null, an Error gives an Error slot with the reply's bytes, an
\* Integer or SimpleString gives Error("upstream protocol error"), and a
\* one-element Array gives the slot the type of that element, with the
\* element's bytes only when the element is not Null.
C14_SlotIsFunctionOfReply ==
  \A r \in Reqs :
    kind[r] = "MGETRequest" =>
      LET reply == IF Delivered(r) THEN Reply(r).value ELSE pending_response_[r] IN
      \A i \in Handles(r) :
        LET value == Pool(r, i).reply IN
        /\ Pool(r, i).state = "responded"
        /\ value.type = "Array" => Len(value.arr) = 1
        => reply.arr[i] = C14_SlotFor(value)

C14_Witness ==
  \E r \in Reqs :
    /\ kind[r] = "MGETRequest" /\ NumKeys(r) = 3 /\ Delivered(r)
    /\ Pool(r, 1).state = "responded" /\ Pool(r, 1).reply = Arr(<<Bulk("v")>>)
    /\ Pool(r, 2).state = "responded" /\ Pool(r, 2).reply = Arr(<<NullValue>>)
    /\ Pool(r, 3).state = "responded" /\ Pool(r, 3).reply = Simple("OK")
    /\ Reply(r).value = Arr(<<Bulk("v"), NullValue, makeError("upstream protocol error")>>)

\* C15: a partial failure of an MGET is never turned into one error for the
\* whole command: a rejected child leaves Error("no upstream host") in its
\* own slot, a failed child Error("upstream failure") in its own slot, the
\* other slots hold what their children returned, and the reply is an Array
\* whatever error_count_ is.
C15_PartialFailureStaysPerSlot ==
  \A r \in Reqs :
    kind[r] = "MGETRequest" =>
      LET reply == IF Delivered(r) THEN Reply(r).value ELSE pending_response_[r] IN
      /\ reply.type = "Array" /\ Len(reply.arr) = NumKeys(r)
      /\ \A i \in Handles(r) :
           /\ Pool(r, i).state = "rejected" => reply.arr[i] = NoUpstreamHost
           /\ Pool(r, i).state = "failed" => reply.arr[i] = UpstreamFailure
           /\ Pool(r, i).state = "responded" /\ Pool(r, i).reply.type \in {"BulkString", "Null"}
                => reply.arr[i] = Pool(r, i).reply

C15_Witness ==
  \E r \in Reqs :
    /\ kind[r] = "MGETRequest" /\ NumKeys(r) = 3 /\ Delivered(r) /\ error_count_[r] = 2
    /\ Pool(r, 1).state = "failed" /\ Pool(r, 2).state = "responded"
    /\ Pool(r, 3).state = "rejected"
    /\ Reply(r).value = Arr(<<UpstreamFailure, NullValue, NoUpstreamHost>>)

\* C16: every slot of a delivered MGET reply is a BulkString, a Null or an
\* Error, whatever the upstream children returned (an Integer, a
\* SimpleString, or an Array holding an Integer, a SimpleString or an Array
\* included); a reply that does not fit becomes Error("upstream protocol
\* error"). Stated for requests whose children all returned an element for
\* the slot, so that the read past the end of an empty Array plays no part.
C16_SlotsAreBulkNullOrError ==
  \A r \in Reqs :
    /\ kind[r] = "MGETRequest" /\ Delivered(r)
    /\ "asArray()[i] out of bounds" \notin fault
    => \A i \in 1..Len(Reply(r).value.arr) :
         Reply(r).value.arr[i].type \in {"BulkString", "Null", "Error"}

\* C17: a cancel() the caller makes from inside the onResponse that delivers
\* the request's reply (the aggregated reply of an MGET, the single reply of
\* a Simple or Eval request) does nothing: no second onResponse, no pool
\* handle's cancel() invoked, no null handle dereferenced.
C17_ReentrantCancelIsHarmless ==
  [][\A r \in Reqs :
       in_callback = r /\ cancels'[r] = cancels[r] + 1 =>
         /\ responses'[r] = responses[r]
         /\ pool_requests'[r] = pool_requests[r]
         /\ fault' = fault /\ ~crashed']_vars

\* The calls a request has made to conn_pool.makeRequest are the ones its
\* command calls for: one for a Simple request (key = element 1, the
\* command as received), one for an Eval request (key = element 3, the
\* command as received), and for an MGET the first create_i - 1 of its N
\* calls while create runs and all N once it has returned, the i-th routed
\* by key i and carrying ["MGET", key i].
C18_PoolCalls(r) ==
  LET request == incoming_request[r] IN
  CASE kind[r] = "SimpleRequest" ->
         /\ Len(pool_requests[r]) = 1
         /\ Pool(r, 1).key = request.arr[2].str /\ Pool(r, 1).request = request
    [] kind[r] = "EvalRequest" ->
         /\ Len(pool_requests[r]) = 1
         /\ Pool(r, 1).key = request.arr[4].str /\ Pool(r, 1).request = request
    [] kind[r] = "MGETRequest" ->
         /\ Len(pool_requests[r]) = IF in_create = r THEN create_i[r] - 1 ELSE NumKeys(r)
         /\ \A i \in Handles(r) :
              /\ Pool(r, i).key = request.arr[i + 1].str
              /\ Pool(r, i).request = Arr(<<Bulk("MGET"), request.arr[i + 1]>>)
              /\ Pool(r, i).cb = i - 1
    [] OTHER -> pool_requests[r] = <<>>

\* C18 as stated: the splitter never retries: conn_pool.makeRequest is called
\* once for a Simple request, once for an Eval request of valid arity, N
\* times in key order for an N-key MGET, and no call is made once any child
\* has been rejected, has failed or has been answered.
C18_NoCallAfterAnySettlement ==
  /\ [](\A r \in Reqs : C18_PoolCalls(r))
  /\ [][\A r \in Reqs :
          (\E h \in Handles(r) : Settled(Pool(r, h)))
            => Len(pool_requests'[r]) = Len(pool_requests[r])]_vars

\* C18 amended: the splitter never retries: conn_pool.makeRequest is called
\* once for a Simple request, once for an Eval request of valid arity and
\* once per key, in key order, for an MGET, all of it before makeRequest
\* returns; whatever rejections, failures and responses follow, the list of
\* calls stays as it was. Inside MGETRequest::create the children after a
\* rejected one are still dispatched.
C18_OneCallPerChild ==
  \A r \in Reqs :
    /\ C18_PoolCalls(r)
    /\ returned[r] # "none" =>
         Len(pool_requests[r]) = (CASE kind[r] = "MGETRequest" -> NumKeys(r)
                                    [] SingleServer(r) -> 1
                                    [] OTHER -> 0)

C18_Witness ==
  \E r \in Reqs :
    /\ kind[r] = "MGETRequest" /\ NumKeys(r) = 3 /\ returned[r] = "ptr"
    /\ Pool(r, 1).state = "rejected" /\ Pool(r, 2).state = "failed"
    /\ Pool(r, 3).state = "responded"
    /\ Pool(r, 3).key = "c" /\ Pool(r, 3).request = Arr(<<Bulk("MGET"), Bulk("c")>>)

\* C19: in every state of an MGET, error_count_ is the number of settled
\* children whose reply was a BulkString, an Error, an Integer or a
\* SimpleString, the errors made up for rejected and failed children
\* included; Null and Array replies never count. The count has no bearing on
\* the reply: whatever it is, the reply delivered is the Array of slots.
C19_ErrorCountCountsReplies ==
  \A r \in Reqs :
    kind[r] = "MGETRequest" =>
      /\ error_count_[r] =
           Cardinality({h \in Handles(r) :
              /\ Settled(Pool(r, h))
              /\ ChildOutcome(Pool(r, h)).type \in
                   {"BulkString", "Error", "Integer", "SimpleString"}})
      /\ Delivered(r) => Reply(r).value.type = "Array" /\ Len(Reply(r).value.arr) = NumKeys(r)

C19_Witness ==
  \E r \in Reqs :
    /\ kind[r] = "MGETRequest" /\ NumKeys(r) = 3 /\ Delivered(r) /\ error_count_[r] = 1
    /\ Pool(r, 1).state = "responded" /\ Pool(r, 1).reply = Bulk("v")
    /\ Pool(r, 2).state = "responded" /\ Pool(r, 2).reply = NullValue
    /\ Pool(r, 3).state = "responded" /\ Pool(r, 3).reply = Arr(<<Bulk("v")>>)

\* C20: for an MGET that has not been cancelled, num_pending_responses_ is
\* the number of children with a non-null handle plus, while create is still
\* dispatching, the number of children not dispatched yet; after create has
\* returned it is the number of non-null handles, each of them live in the
\* pool, so a request that was returned and has neither been cancelled nor
\* delivered its reply has at least one live handle. Stated of a running
\* process: a callback that dies on the read past an empty Array has nulled
\* its handle and not yet counted down.
C20_PendingEqualsLiveHandles ==
  \A r \in Reqs :
    kind[r] = "MGETRequest" /\ cancels[r] = 0 /\ ~crashed =>
      LET pr == pending_requests_[r] IN
      /\ num_pending_responses_[r] = LiveHandles(pr) + (NumKeys(r) - Len(pr))
      /\ \A k \in 1..Len(pr) : pr[k].handle_ # 0 => Pool(r, pr[k].handle_).state = "live"
      /\ returned[r] # "none" => num_pending_responses_[r] = LiveHandles(pr)
      /\ returned[r] = "ptr" /\ ~Delivered(r) => LiveHandles(pr) >= 1

C20_Witness ==
  \E r \in Reqs :
    /\ kind[r] = "MGETRequest" /\ NumKeys(r) = 3 /\ returned[r] = "ptr"
    /\ cancels[r] = 0 /\ ~crashed /\ ~Delivered(r)
    /\ num_pending_responses_[r] = 1 /\ LiveHandles(pending_requests_[r]) = 1
    /\ Pool(r, 1).state = "rejected" /\ Pool(r, 2).state = "live"
    /\ Pool(r, 3).state = "responded"

\* C21: whatever the command and whatever the pool accepts or rejects,
\* makeRequest returns null exactly when one onResponse reached the caller
\* before it returned; when it returns a request, no onResponse has been
\* delivered yet and at least one handle of the request is live in the pool.
C21_NullIffRepliedBeforeReturn ==
  /\ [][\A r \in Reqs :
          returned[r] = "none" /\ returned'[r] # "none" =>
            /\ returned'[r] = "null" <=> Len(responses'[r]) = 1
            /\ returned'[r] = "ptr" =>
                 /\ responses'[r] = <<>>
                 /\ \E h \in 1..Len(pool_requests'[r]) :
                      /\ pool_requests'[r][h].state = "live"
                      /\ \/ handle_'[r] = h
                         \/ \E k \in 1..Len(pending_requests_'[r]) :
                              pending_requests_'[r][k].handle_ = h]_vars
  /\ [](\A r \in Reqs :
          /\ returned[r] = "none" => Len(responses[r]) <= 1
          /\ returned[r] = "null" => Len(responses[r]) = 1 /\ Reply(r).sync
          /\ returned[r] = "ptr" => \A k \in 1..Len(responses[r]) : ~responses[r][k].sync)

C21_Witness ==
  \E r \in Reqs :
    /\ kind[r] = "EvalRequest" /\ returned[r] = "null"
    /\ Len(responses[r]) = 1 /\ Reply(r).sync /\ Reply(r).value = NoUpstreamHost
    /\ Pool(r, 1).state = "rejected" /\ destroyed[r]

\* Everything a request owns: its command, its object's fields, the pool
\* requests issued for it, the replies its caller was given, and what the
\* caller did with it.
C22_RequestState(r) ==
  <<incoming_request[r], kind[r], handle_[r], pending_requests_[r],
    num_pending_responses_[r], error_count_[r], pending_response_[r], create_i[r],
    pool_requests[r], responses[r], returned[r], destroyed[r], cancels[r]>>

\* C22: with two requests in flight on one dispatcher, whatever the
\* interleaving of their child callbacks and whichever of them is cancelled,
\* a step taken for one request (a child callback, cancel(), anything else)
\* changes no state of the other, and each request's handles, pending count,
\* slots and delivered reply are what its own children make them.
C22_RequestsDoNotInterfere ==
  /\ [][\A r \in Reqs, o \in Reqs :
          r # o /\ C22_RequestState(r)' # C22_RequestState(r)
            => C22_RequestState(o)' = C22_RequestState(o)]_vars
  /\ [](\A r \in Reqs :
          /\ kind[r] = "MGETRequest" =>
               LET reply == IF Delivered(r) THEN Reply(r).value ELSE pending_response_[r]
                   pr == pending_requests_[r]
               IN
               /\ num_pending_responses_[r] =
                    NumKeys(r) - Cardinality({h \in Handles(r) : Settled(Pool(r, h))})
               /\ \A k \in 1..Len(pr) :
                    pr[k].handle_ # 0 => pr[k].handle_ = k /\ Pool(r, k).state = "live"
               /\ \A i \in 1..NumKeys(r) :
                    reply.arr[i] = IF i \in Handles(r) /\ Settled(Pool(r, i))
                                     THEN ChildOutcome(Pool(r, i)) ELSE NullValue
               /\ Delivered(r) <=> num_pending_responses_[r] = 0
          /\ SingleServer(r) =>
               /\ handle_[r] # 0 => Pool(r, handle_[r]).state = "live"
               /\ Delivered(r) <=> Settled(Pool(r, 1))
               /\ Delivered(r) => Reply(r).value = ChildOutcome(Pool(r, 1)))

C22_Witness ==
  /\ kind[1] = "MGETRequest" /\ kind[2] = "MGETRequest"
  /\ returned[1] = "ptr" /\ ~Delivered(1) /\ cancels[1] = 0 /\ ~crashed
  /\ Pool(1, 1).state = "responded" /\ Pool(1, 2).state = "live"
  /\ num_pending_responses_[1] = 1
  /\ cancels[2] = 1 /\ ~Delivered(2)
  /\ Pool(2, 1).state = "failed" /\ Pool(2, 2).state = "cancelled"

====
